---- MODULE Spec2Model ----
\* Model of session::modules::tex::engine (SessionTexEngine.cpp): the
\* rs_texToPdf entry point, the helpers that compose the TEXINPUTS /
\* BIBINPUTS / BSTINPUTS overlay and the texi2dvi arguments, and the
\* asynchronous child started through the process supervisor.
\*
\* Strings are sequences of one-character strings; a FilePath is the string of
\* its absolute path (the empty sequence is the empty FilePath), in the generic
\* form FilePath::absolutePath() returns: "/" separates the components on every
\* platform. _WIN32 is a build-time choice, so win32 is fixed by Init.
EXTENDS Integers, Sequences, FiniteSets, TLC

VARIABLES
    win32,        \* TRUE when built with _WIN32 defined
    ambient,      \* process environment: sequence of <<name, value>>
    rHome,        \* what R.home("share") and the file system answer
    texFilePath,  \* resolved target file
    pc,           \* position of rs_texToPdf
    texi2dviPath, \* result of findProgram("texi2dvi")
    result,       \* ProcessResult / Error of the --version probe
    trace,        \* components invoked by this rs_texToPdf call, in order
    errSink,      \* texts rs_texToPdf itself gave to consoleWriteError
    envVars,      \* overlay returned by texi2dviEnvironmentVars
    shellArgs,    \* arguments returned by texi2dviShellArgs
    plan,         \* what executeTexToPdf handed to processSupervisor().runProgram
    launchError,  \* Error returned by executeTexToPdf
    retval,       \* value returned by rs_texToPdf
    alive,        \* live processes of the compile: 0 is the texi2dvi child
    spawned,      \* number of descendants the child tree has forked so far
    streamed,     \* chunks delivered to the onStdout / onStderr callbacks
    cancelled,    \* the supervisor was asked to stop the compile
    tornDown,     \* the supervisor has carried out the stop
    killed        \* processes the stop terminated

vars == <<win32, ambient, rHome, texFilePath, pc, texi2dviPath, result, trace,
          errSink, envVars, shellArgs, plan, launchError, retval, alive, spawned,
          streamed, cancelled, tornDown, killed>>

\* ---------------------------------------------------------------- bounds
MaxDescendants == 1
MaxChunks == 1

\* ---------------------------------------------------------------- strings
Empty == <<>>
NL == "\n"
Backslash == "\\"
Slash == "/"

ReplaceAll(s, from, to) ==
    [i \in 1..Len(s) |-> IF s[i] = from THEN to ELSE s[i]]

Find(s, sub) ==
    \E i \in 1..(Len(s) - Len(sub) + 1) : SubSeq(s, i, i + Len(sub) - 1) = sub

\* string_utils::utf8ToSystem: re-encodes every non-ASCII UTF-8 unit ("u8")
\* in the system code page ("sys"); ASCII is kept.
utf8ToSystem(s) == ReplaceAll(s, "u8", "sys")

kPathSeparator(win) == IF win THEN ";" ELSE ":"

\* core::system::addToPath(&path, filePath)
addToPath(path, filePath, win) ==
    IF path = Empty THEN filePath ELSE path \o <<kPathSeparator(win)>> \o filePath

\* ---------------------------------------------------------------- FilePath
LastSlash(p) ==
    IF \E i \in 1..Len(p) : p[i] = Slash
    THEN CHOOSE i \in 1..Len(p) :
            p[i] = Slash /\ \A j \in (i + 1)..Len(p) : p[j] # Slash
    ELSE 0

filename(p) == SubSeq(p, LastSlash(p) + 1, Len(p))

parent(p) == IF LastSlash(p) <= 1 THEN SubSeq(p, 1, LastSlash(p))
             ELSE SubSeq(p, 1, LastSlash(p) - 1)

complete(p, child) == p \o <<Slash>> \o child

childPath(p, child) == complete(p, child)

\* ---------------------------------------------------------------- environment
\* core::system::getenv(name): the value, or empty when unset
getenv(env, name) ==
    IF \E i \in 1..Len(env) : env[i][1] = name
    THEN env[CHOOSE i \in 1..Len(env) : env[i][1] = name][2]
    ELSE Empty

\* core::system::setenv(&env, name, value): replace in place, or append
setenv(env, name, value) ==
    IF \E i \in 1..Len(env) : env[i][1] = name
    THEN [i \in 1..Len(env) |-> IF env[i][1] = name THEN <<name, value>> ELSE env[i]]
    ELSE Append(env, <<name, value>>)

\* ---------------------------------------------------------------- literals
S_texmf == <<"t", "e", "x", "m", "f">>
S_texLatex == <<"t", "e", "x", "/", "l", "a", "t", "e", "x">>
S_bibtexBib == <<"b", "i", "b", "t", "e", "x", "/", "b", "i", "b">>
S_bibtexBst == <<"b", "i", "b", "t", "e", "x", "/", "b", "s", "t">>
S_MiKTeX == <<"M", "i", "K", "T", "e", "X">>
S_pdf == <<"-", "-", "p", "d", "f">>
S_quiet == <<"-", "-", "q", "u", "i", "e", "t">>
S_I == <<"-", "I">>
S_false == <<"f", "a", "l", "s", "e">>
S_C == <<"C">>
S_dot == <<".">>
S_cantFind == <<"c", "a", "n", "'", "t", " ", "f", "i", "n", "d", " ",
                "t", "e", "x", "i", "2", "d", "v", "i", NL>>
S_rstudioPdflatex == <<"r", "s", "t", "u", "d", "i", "o", "-",
                       "p", "d", "f", "l", "a", "t", "e", "x">>
S_cmd == <<".", "c", "m", "d">>
S_sh == <<".", "s", "h">>

\* session::options().texScriptsPath()
texScriptsPath == <<Slash, "s">>

InputNames == {"TEXINPUTS", "BIBINPUTS", "BSTINPUTS"}

\* ---------------------------------------------------------------- rTexmfPaths
RTexmfPaths(tex, bib, bst) ==
    [texInputsPath |-> tex, bibInputsPath |-> bib, bstInputsPath |-> bst]

\* RTexmfPaths::empty()
empty(paths) == paths.texInputsPath = Empty

rTexmfPaths(home) ==
    IF home.callError THEN RTexmfPaths(Empty, Empty, Empty)
    ELSE IF ~home.shareExists THEN RTexmfPaths(Empty, Empty, Empty)
    ELSE IF ~home.texmfExists THEN RTexmfPaths(Empty, Empty, Empty)
    ELSE LET rTexmfPath == complete(home.share, S_texmf)
         IN  RTexmfPaths(childPath(rTexmfPath, S_texLatex),
                         childPath(rTexmfPath, S_bibtexBib),
                         childPath(rTexmfPath, S_bibtexBst))

\* ---------------------------------------------------------------- inputsEnvVar
\* mutant: the closing addToPath(&value, "") is left out
inputsEnvVar_NoTrailing(env, win, name, extraPath, ensureForwardSlashes) ==
    LET got == getenv(env, name)
        v0 == IF got = Empty THEN S_dot ELSE got
        v1 == IF win /\ ensureForwardSlashes
              THEN ReplaceAll(v0, Backslash, Slash) ELSE v0
    IN  <<name, addToPath(v1, utf8ToSystem(extraPath), win)>>

\* mutant: the _WIN32 replace_all is left out
inputsEnvVar_NeverSlashes(env, win, name, extraPath, ensureForwardSlashes) ==
    LET got == getenv(env, name)
        v0 == IF got = Empty THEN S_dot ELSE got
        v2 == addToPath(v0, utf8ToSystem(extraPath), win)
    IN  <<name, addToPath(v2, Empty, win)>>

inputsEnvVar(env, win, name, extraPath, ensureForwardSlashes) ==
    LET got == getenv(env, name)
        v0 == IF got = Empty THEN S_dot ELSE got
        v1 == IF win /\ ensureForwardSlashes
              THEN ReplaceAll(v0, Backslash, Slash) ELSE v0
        sysPath == utf8ToSystem(extraPath)
        v2 == addToPath(v1, sysPath, win)
        v3 == addToPath(v2, Empty, win)
    IN  <<name, v3>>

pdfLatexEnvVar(win) ==
    LET kScriptEx == IF win THEN S_cmd ELSE S_sh
        pdfLatexPath == complete(texScriptsPath, S_rstudioPdflatex \o kScriptEx)
    IN  <<"PDFLATEX", utf8ToSystem(pdfLatexPath)>>

\* ---------------------------------------------------------------- inputsEnvironmentVars
\* mutant: TEXINPUTS is pushed before the texmfPaths.empty() test
inputsEnvironmentVars_TexFirst(env, home, win) ==
    LET texmfPaths == rTexmfPaths(home)
        first == <<inputsEnvVar(env, win, "TEXINPUTS", texmfPaths.texInputsPath, TRUE)>>
    IN  IF ~empty(texmfPaths)
        THEN first \o
             << inputsEnvVar(env, win, "BIBINPUTS", texmfPaths.bibInputsPath, FALSE),
                inputsEnvVar(env, win, "BSTINPUTS", texmfPaths.bstInputsPath, FALSE) >>
        ELSE first

\* mutant: the texmfPaths.empty() test is dropped
inputsEnvironmentVars_NoGuard(env, home, win) ==
    LET texmfPaths == rTexmfPaths(home)
    IN  << inputsEnvVar(env, win, "TEXINPUTS", texmfPaths.texInputsPath, TRUE),
           inputsEnvVar(env, win, "BIBINPUTS", texmfPaths.bibInputsPath, FALSE),
           inputsEnvVar(env, win, "BSTINPUTS", texmfPaths.bstInputsPath, FALSE) >>

inputsEnvironmentVars(env, home, win) ==
    LET texmfPaths == rTexmfPaths(home)
    IN  IF ~empty(texmfPaths)
        THEN << inputsEnvVar(env, win, "TEXINPUTS", texmfPaths.texInputsPath, TRUE),
                inputsEnvVar(env, win, "BIBINPUTS", texmfPaths.bibInputsPath, FALSE),
                inputsEnvVar(env, win, "BSTINPUTS", texmfPaths.bstInputsPath, FALSE) >>
        ELSE <<>>

texi2dviEnvironmentVars(env, home, win, texVersionInfo) ==
    inputsEnvironmentVars(env, home, win)
    \o (IF ~win THEN << <<"TEXINDY", S_false>>, <<"LC_COLLATE", S_C>> >> ELSE <<>>)
    \o << pdfLatexEnvVar(win) >>

\* ---------------------------------------------------------------- texi2dviShellArgs
\* mutant: BIBINPUTS is passed with -I as well
texi2dviShellArgs_WithBib(home, win, texVersionInfo) ==
    LET texmfPaths == rTexmfPaths(home)
        norm(p) == ReplaceAll(utf8ToSystem(p), Backslash, Slash)
    IN  <<S_pdf, S_quiet>> \o
        (IF win /\ Find(texVersionInfo, S_MiKTeX) /\ ~empty(texmfPaths)
         THEN << S_I, norm(texmfPaths.texInputsPath),
                 S_I, norm(texmfPaths.bibInputsPath),
                 S_I, norm(texmfPaths.bstInputsPath) >>
         ELSE <<>>)

texi2dviShellArgs(home, win, texVersionInfo) ==
    LET texmfPaths == rTexmfPaths(home)
        norm(p) == ReplaceAll(utf8ToSystem(p), Backslash, Slash)
    IN  <<S_pdf, S_quiet>> \o
        (IF win /\ Find(texVersionInfo, S_MiKTeX) /\ ~empty(texmfPaths)
         THEN << S_I, norm(texmfPaths.texInputsPath),
                 S_I, norm(texmfPaths.bstInputsPath) >>
         ELSE <<>>)

\* ---------------------------------------------------------------- executeTexToPdf
RECURSIVE MergeEnv(_, _)
\* the BOOST_FOREACH over envVars: setenv for each overlay entry, in order
MergeEnv(env, overlay) ==
    IF overlay = <<>> THEN env
    ELSE MergeEnv(setenv(env, overlay[1][1], overlay[1][2]), Tail(overlay))

\* mutant: terminateChildren is left at its default
ProcessPlan_NoTerminateChildren(env, texProgramPath, overlay, args, texFile) ==
    [ program |-> utf8ToSystem(texProgramPath),
      args |-> args \o <<filename(texFile)>>,
      terminateChildren |-> FALSE,
      environment |-> MergeEnv(env, overlay),
      workingDir |-> parent(texFile) ]

\* mutant: an ambient variable is kept when the overlay names it too
ProcessPlan_AmbientWins(env, texProgramPath, overlay, args, texFile) ==
    [ program |-> utf8ToSystem(texProgramPath),
      args |-> args \o <<filename(texFile)>>,
      terminateChildren |-> TRUE,
      environment |->
          MergeEnv(env, SelectSeq(overlay, LAMBDA o : getenv(env, o[1]) = Empty)),
      workingDir |-> parent(texFile) ]

\* procArgs and procOptions as given to processSupervisor().runProgram
ProcessPlan(env, texProgramPath, overlay, args, texFile) ==
    [ program |-> utf8ToSystem(texProgramPath),
      args |-> args \o <<filename(texFile)>>,
      terminateChildren |-> TRUE,
      environment |-> MergeEnv(env, overlay),
      workingDir |-> parent(texFile) ]

\* ---------------------------------------------------------------- rs_texToPdf
EXIT_SUCCESS == 0
R_NilValue == "R_NilValue"

Success == [failed |-> FALSE, summary |-> Empty]
SpawnError == [failed |-> TRUE, summary |-> <<"s", "p", "a", "w", "n">>]

NoResult == [error |-> Success, exitStatus |-> EXIT_SUCCESS,
             stdOut |-> Empty, stdErr |-> Empty]
NoPlan == [program |-> Empty, args |-> <<>>, terminateChildren |-> FALSE,
           environment |-> <<>>, workingDir |-> Empty]

\* mutant: an empty path from findProgram is not noticed
ToolNotFound_Never(path) == FALSE

\* texi2dviPath.empty()
ToolNotFound(path) == path = Empty

\* mutant: the exit status of the probe is not looked at
ProbeOutcome_IgnoreExit(res) ==
    IF res.error.failed THEN "error" ELSE "ok"

\* the if / else if after core::system::runProgram
ProbeOutcome(res) ==
    IF res.error.failed THEN "error"
    ELSE IF res.exitStatus # EXIT_SUCCESS THEN "nonzero"
    ELSE "ok"

\* what the failed probe makes rs_texToPdf write
ProbeReport(res) ==
    IF res.error.failed THEN res.error.summary \o <<NL>> ELSE res.stdErr

\* mutant: a failed launch is not reported
LaunchReport_Silent(error) == <<>>

\* the if (error) after executeTexToPdf: the texts written
LaunchReport(error) ==
    IF error.failed THEN << error.summary \o <<NL>> >> ELSE <<>>

\* ---------------------------------------------------------------- inputs
Texi2dviProgram == <<Slash, "b", Slash, "t">>

AmbientValues == { Empty, <<"a">>, <<"c", Backslash, "d">> }
TexFiles == { <<Slash, "d", Slash, "f">>, <<Slash, "d", Slash, "e", Slash, "g">> }
ProbeOutputs == { Empty, <<"G", "N", "U">>, <<"x">> \o S_MiKTeX \o <<"y">>,
                  <<"M", "i", "K", "T", "e">> }
ProbeErrors == { Empty, <<"e", NL>>, <<"e", NL, "f", NL>> }
ShareDir == <<Slash, "R", "u8">>
RHomes == { [callError |-> TRUE, share |-> Empty, shareExists |-> FALSE, texmfExists |-> FALSE],
            [callError |-> FALSE, share |-> ShareDir, shareExists |-> FALSE, texmfExists |-> FALSE],
            [callError |-> FALSE, share |-> ShareDir, shareExists |-> TRUE, texmfExists |-> FALSE],
            [callError |-> FALSE, share |-> ShareDir, shareExists |-> TRUE, texmfExists |-> TRUE] }

\* the environment block: HOME and PDFLATEX are set; a variable with no value is unset
Environment(tex, bib, bst) ==
    SelectSeq(<< <<"HOME", <<Slash, "h">> >>, <<"TEXINPUTS", tex>>, <<"BIBINPUTS", bib>>,
                 <<"BSTINPUTS", bst>>, <<"PDFLATEX", <<"p">> >> >>,
              LAMBDA o : o[2] # Empty)

Init ==
    /\ win32 \in BOOLEAN
    /\ \E tex \in AmbientValues, bib \in AmbientValues, bst \in AmbientValues :
            ambient = Environment(tex, bib, bst)
    /\ rHome \in RHomes
    /\ texFilePath \in TexFiles
    /\ pc = "start"
    /\ texi2dviPath = Empty
    /\ result = NoResult
    /\ trace = <<>>
    /\ errSink = <<>>
    /\ envVars = <<>>
    /\ shellArgs = <<>>
    /\ plan = NoPlan
    /\ launchError = Success
    /\ retval = "none"
    /\ alive = {}
    /\ spawned = 0
    /\ streamed = [out |-> 0, err |-> 0]
    /\ cancelled = FALSE
    /\ tornDown = FALSE
    /\ killed = {}

inputsUnchanged == UNCHANGED <<win32, ambient, rHome, texFilePath>>
processUnchanged == UNCHANGED <<alive, spawned, streamed, cancelled, tornDown, killed>>

\* rs_texToPdf up to the findProgram test
Locate ==
    /\ pc = "start"
    /\ \E path \in {Empty, Texi2dviProgram} :
        /\ texi2dviPath' = path
        /\ IF ToolNotFound(path)
           THEN /\ trace' = trace \o <<"findProgram", "consoleWriteError">>
                /\ errSink' = Append(errSink, S_cantFind)
                /\ pc' = "done"
                /\ retval' = R_NilValue
           ELSE /\ trace' = Append(trace, "findProgram")
                /\ errSink' = errSink
                /\ pc' = "probe"
                /\ retval' = retval
    /\ UNCHANGED <<result, envVars, shellArgs, plan, launchError>>
    /\ inputsUnchanged /\ processUnchanged

\* the synchronous texi2dvi --version run and the tests on its result
Probe ==
    /\ pc = "probe"
    /\ \E res \in
            { [error |-> SpawnError, exitStatus |-> EXIT_SUCCESS,
               stdOut |-> Empty, stdErr |-> Empty] }
            \cup { [error |-> Success, exitStatus |-> 1, stdOut |-> Empty, stdErr |-> e] :
                     e \in ProbeErrors }
            \cup { [error |-> Success, exitStatus |-> EXIT_SUCCESS, stdOut |-> o,
                    stdErr |-> Empty] : o \in ProbeOutputs } :
        /\ result' = res
        /\ IF ProbeOutcome(res) = "ok"
           THEN /\ trace' = Append(trace, "runProgram")
                /\ errSink' = errSink
                /\ pc' = "launch"
                /\ retval' = retval
           ELSE /\ trace' = trace \o <<"runProgram", "consoleWriteError">>
                /\ errSink' = Append(errSink, ProbeReport(res))
                /\ pc' = "done"
                /\ retval' = R_NilValue
    /\ UNCHANGED <<texi2dviPath, envVars, shellArgs, plan, launchError>>
    /\ inputsUnchanged /\ processUnchanged

\* executeTexToPdf(texi2dviPath, texi2dviEnvironmentVars(..), texi2dviShellArgs(..),
\* texFilePath) and the report of its error. The two argument expressions read the
\* same inputs and write nothing, so the order the compiler evaluates them in
\* shows only in the order they are entered in trace.
Launch ==
    /\ pc = "launch"
    /\ LET overlay == texi2dviEnvironmentVars(ambient, rHome, win32, result.stdOut)
           args == texi2dviShellArgs(rHome, win32, result.stdOut)
       IN  /\ envVars' = overlay
           /\ shellArgs' = args
           /\ plan' = ProcessPlan(ambient, texi2dviPath, overlay, args, texFilePath)
    /\ \E error \in {Success, SpawnError} :
        /\ launchError' = error
        /\ errSink' = errSink \o LaunchReport(error)
        /\ trace' = trace \o <<"texi2dviEnvironmentVars", "texi2dviShellArgs",
                               "executeTexToPdf">>
                          \o [i \in 1..Len(LaunchReport(error)) |-> "consoleWriteError"]
        /\ alive' = IF error.failed THEN {} ELSE {0}
    /\ pc' = "done"
    /\ retval' = R_NilValue
    /\ UNCHANGED <<texi2dviPath, result, spawned, streamed, cancelled, tornDown, killed>>
    /\ inputsUnchanged

orchestratorUnchanged ==
    UNCHANGED <<pc, texi2dviPath, result, trace, errSink, envVars, shellArgs, plan,
                launchError, retval>>

\* ---------------------------------------------------------------- the supervised child
\* a live process of the compile forks a sub-process
Fork ==
    /\ alive # {}
    /\ spawned < MaxDescendants
    /\ spawned' = spawned + 1
    /\ alive' = alive \cup {spawned + 1}
    /\ UNCHANGED <<streamed, cancelled, tornDown, killed>>
    /\ orchestratorUnchanged /\ inputsUnchanged

\* cb.onStdout / cb.onStderr: a chunk of output reaches the console
Stream ==
    /\ alive # {}
    /\ ~tornDown
    /\ streamed.out + streamed.err < MaxChunks
    /\ \E ch \in {"out", "err"} : streamed' = [streamed EXCEPT ![ch] = @ + 1]
    /\ UNCHANGED <<alive, spawned, cancelled, tornDown, killed>>
    /\ orchestratorUnchanged /\ inputsUnchanged

\* a process of the compile ends by itself
Exit ==
    /\ \E p \in alive : alive' = alive \ {p}
    /\ UNCHANGED <<spawned, streamed, cancelled, tornDown, killed>>
    /\ orchestratorUnchanged /\ inputsUnchanged

\* the in-flight compile is cancelled or abandoned
Cancel ==
    /\ 0 \in alive
    /\ ~cancelled
    /\ cancelled' = TRUE
    /\ UNCHANGED <<alive, spawned, streamed, tornDown, killed>>
    /\ orchestratorUnchanged /\ inputsUnchanged

\* the supervisor stops the child: with terminateChildren the whole tree
Teardown ==
    /\ cancelled
    /\ ~tornDown
    /\ tornDown' = TRUE
    /\ killed' = IF plan.terminateChildren THEN alive ELSE alive \cap {0}
    /\ alive' = alive \ killed'
    /\ UNCHANGED <<spawned, streamed, cancelled>>
    /\ orchestratorUnchanged /\ inputsUnchanged

Next == Locate \/ Probe \/ Launch \/ Fork \/ Stream \/ Exit \/ Cancel \/ Teardown

Spec == Init /\ [][Next]_vars

\* the supervisor's poll loop carries out a requested stop
LiveSpec == Spec /\ WF_vars(Teardown)

\* ---------------------------------------------------------------- vocabulary of the claims
Invoked(step) == \E i \in 1..Len(trace) : trace[i] = step
TimesInvoked(step) == Cardinality({i \in 1..Len(trace) : trace[i] = step})
Last(s) == s[Len(s)]
Count(s, c) == Cardinality({i \in 1..Len(s) : s[i] = c})
IsPrefix(p, s) == Len(p) <= Len(s) /\ SubSeq(s, 1, Len(p)) = p
Names(opts) == [i \in 1..Len(opts) |-> opts[i][1]]

ProbeFailed == result.error.failed \/ result.exitStatus # EXIT_SUCCESS
TexmfLocated == ~rHome.callError /\ rHome.shareExists /\ rHome.texmfExists
Launched == Invoked("executeTexToPdf")

\* number of lines of a text: the newline-terminated ones and an unterminated rest
Lines(text) ==
    Count(text, NL) + (IF text # Empty /\ Last(text) # NL THEN 1 ELSE 0)
OneLine(text) == Count(text, NL) = 1 /\ Last(text) = NL

\* the toolchain directories in the system encoding, written out
SysTexmf == <<Slash, "R", "sys", Slash>> \o S_texmf \o <<Slash>>
SysDir(name) ==
    SysTexmf \o (CASE name = "TEXINPUTS" -> S_texLatex
                   [] name = "BIBINPUTS" -> S_bibtexBib
                   [] name = "BSTINPUTS" -> S_bibtexBst)
Sep == IF win32 THEN <<";">> ELSE <<":">>
AmbientOrDot(name) ==
    IF getenv(ambient, name) = Empty THEN S_dot ELSE getenv(ambient, name)

\* ---------------------------------------------------------------- C1
\* C1: when the texi2dvi --version probe fails to spawn or exits non-zero, none of
\* texi2dviEnvironmentVars, texi2dviShellArgs, executeTexToPdf is invoked in that
\* call: rs_texToPdf reports and returns.
C1_ProbeFailureShortCircuits ==
    ProbeFailed =>
        /\ ~Invoked("texi2dviEnvironmentVars")
        /\ ~Invoked("texi2dviShellArgs")
        /\ ~Invoked("executeTexToPdf")
        /\ plan = NoPlan /\ envVars = <<>> /\ shellArgs = <<>> /\ alive = {}
        /\ Last(trace) = "consoleWriteError"
        /\ pc = "done" /\ retval = R_NilValue

C1_Witness ==
    /\ pc = "done"
    /\ ~result.error.failed /\ result.exitStatus # EXIT_SUCCESS
    /\ Invoked("runProgram")

\* ---------------------------------------------------------------- C2
\* C2: when findProgram("texi2dvi") returns an empty path the call ends at once:
\* the error is reported, no probe and no compile process is started, and the
\* lookup happens once.
C2_ToolNotFoundTerminates ==
    (Invoked("findProgram") /\ texi2dviPath = Empty) =>
        /\ trace = <<"findProgram", "consoleWriteError">>
        /\ errSink = <<S_cantFind>>
        /\ result = NoResult /\ plan = NoPlan /\ alive = {} /\ spawned = 0
        /\ pc = "done" /\ retval = R_NilValue

C2_Witness == pc = "done" /\ texi2dviPath = Empty /\ Invoked("findProgram")

\* ---------------------------------------------------------------- C3
TerminalFailure ==
    \/ (Invoked("findProgram") /\ texi2dviPath = Empty)
    \/ ProbeFailed
    \/ launchError.failed

NoRetry ==
    \A step \in {"findProgram", "runProgram", "texi2dviEnvironmentVars",
                 "texi2dviShellArgs", "executeTexToPdf"} : TimesInvoked(step) <= 1

\* C3 as stated: every terminal failure puts exactly one error line on the console
\* error sink, nothing is retried, the call returns R_NilValue; a call without a
\* terminal failure writes no error line of its own.
C3_Original ==
    pc = "done" =>
        /\ retval = R_NilValue
        /\ NoRetry
        /\ IF TerminalFailure
           THEN Len(errSink) = 1 /\ Lines(errSink[1]) = 1
           ELSE errSink = <<>>

\* C3 amended: every terminal failure makes exactly one consoleWriteError call; its
\* text is one newline-terminated line for a missing tool, a probe that did not
\* spawn and a failed launch, and the probe's captured stderr as it is (no line,
\* one or several) for a probe that exited non-zero.
C3_OneErrorWrite ==
    pc = "done" =>
        /\ retval = R_NilValue
        /\ NoRetry
        /\ TimesInvoked("consoleWriteError") = Len(errSink)
        /\ IF TerminalFailure
           THEN /\ Len(errSink) = 1
                /\ IF ~result.error.failed /\ result.exitStatus # EXIT_SUCCESS
                   THEN errSink[1] = result.stdErr
                   ELSE OneLine(errSink[1])
           ELSE errSink = <<>>

C3_Witness ==
    /\ pc = "done" /\ launchError.failed
    /\ Invoked("executeTexToPdf") /\ Len(errSink) = 1

\* ---------------------------------------------------------------- C4
InputsOf(opts) == SelectSeq(opts, LAMBDA o : o[1] \in InputNames)

\* C4: inputsEnvironmentVars is all or nothing: no variable when the R share
\* directory or its texmf directory cannot be located, otherwise exactly
\* TEXINPUTS, BIBINPUTS, BSTINPUTS in that order.
C4_InputsAllOrNothing ==
    Invoked("texi2dviEnvironmentVars") =>
        /\ Names(InputsOf(envVars)) =
              (IF TexmfLocated THEN <<"TEXINPUTS", "BIBINPUTS", "BSTINPUTS">> ELSE <<>>)
        /\ IsPrefix(InputsOf(envVars), envVars)

C4_Witness ==
    /\ Invoked("texi2dviEnvironmentVars")
    /\ ~rHome.callError /\ rHome.shareExists /\ ~rHome.texmfExists
    /\ InputsOf(envVars) = <<>>

\* ---------------------------------------------------------------- C5
PathFlags(args) == {i \in 1..Len(args) : args[i] = S_I}
InjectsTexAndBst(args) ==
    SubSeq(args, 3, Len(args)) =
        <<S_I, SysDir("TEXINPUTS"), S_I, SysDir("BSTINPUTS")>>
NeverBib(args) == \A i \in 1..Len(args) : args[i] # SysDir("BIBINPUTS")

\* C5 as stated: --pdf --quiet first; the two -I flags exactly when the probe
\* output contains "MiKTeX" on Windows; never a flag for BIBINPUTS.
C5_Original ==
    Invoked("texi2dviShellArgs") =>
        /\ SubSeq(shellArgs, 1, 2) = <<S_pdf, S_quiet>>
        /\ InjectsTexAndBst(shellArgs) <=> (win32 /\ Find(result.stdOut, S_MiKTeX))
        /\ NeverBib(shellArgs)

\* C5 amended: the two -I flags are emitted exactly when the probe output contains
\* "MiKTeX", the platform is Windows and the R texmf directory was located.
C5_ShellArgs ==
    Invoked("texi2dviShellArgs") =>
        /\ SubSeq(shellArgs, 1, 2) = <<S_pdf, S_quiet>>
        /\ IF win32 /\ Find(result.stdOut, S_MiKTeX) /\ TexmfLocated
           THEN InjectsTexAndBst(shellArgs) /\ Cardinality(PathFlags(shellArgs)) = 2
           ELSE shellArgs = <<S_pdf, S_quiet>>
        /\ NeverBib(shellArgs)

C5_Witness ==
    /\ Invoked("texi2dviShellArgs")
    /\ win32 /\ Find(result.stdOut, S_MiKTeX) /\ TexmfLocated
    /\ Len(shellArgs) = 6

\* ---------------------------------------------------------------- C6
\* C6 as stated: with the toolchain data directory missing the compile is still
\* launched, nothing is reported for it, and the environment given to the process
\* runner equals the ambient environment.
C6_Original ==
    (pc = "done" /\ ~ProbeFailed /\ texi2dviPath # Empty /\ ~TexmfLocated) =>
        /\ Launched
        /\ (~launchError.failed => errSink = <<>>)
        /\ plan.environment = ambient

\* C6 amended: with the toolchain data directory missing the compile is still
\* launched and nothing is reported for it; the overlay holds no TEXINPUTS,
\* BIBINPUTS or BSTINPUTS, so those three keep their ambient values, but it still
\* holds PDFLATEX (and TEXINDY, LC_COLLATE off Windows), which replace the
\* ambient ones.
C6_FailSoft ==
    (pc = "done" /\ ~ProbeFailed /\ texi2dviPath # Empty /\ ~TexmfLocated) =>
        /\ Launched
        /\ (~launchError.failed => errSink = <<>>)
        /\ \A n \in InputNames \cup {"HOME"} :
              getenv(plan.environment, n) = getenv(ambient, n)
        /\ Names(envVars) = (IF win32 THEN <<"PDFLATEX">>
                             ELSE <<"TEXINDY", "LC_COLLATE", "PDFLATEX">>)
        /\ getenv(plan.environment, "PDFLATEX") # getenv(ambient, "PDFLATEX")

C6_Witness ==
    /\ pc = "done" /\ Launched /\ ~TexmfLocated /\ ~launchError.failed
    /\ getenv(ambient, "TEXINPUTS") # Empty
    /\ alive = {0}

\* ---------------------------------------------------------------- C7
\* C7: cancelling or abandoning the in-flight compile terminates the whole process
\* tree: once cancelled, eventually no process of the compile survives (the
\* texi2dvi child and every descendant).
C7_CancelKillsTree == cancelled ~> (alive = {})

C7_Witness ==
    /\ cancelled /\ tornDown
    /\ killed \ {0} # {}
    /\ streamed.out + streamed.err > 0
    /\ alive = {}

\* ---------------------------------------------------------------- C8
EndsWith(s, t) == Len(t) <= Len(s) /\ SubSeq(s, Len(s) - Len(t) + 1, Len(s)) = t

\* C8 as stated: for each of the three variables an empty ambient value gives
\* "." then the toolchain directory then an empty last segment; in general the
\* ambient value (or ".") is the prefix and the empty last segment is present.
C8_Original ==
    (Invoked("texi2dviEnvironmentVars") /\ TexmfLocated) =>
        \A n \in InputNames :
            LET v == getenv(envVars, n)
            IN  /\ getenv(ambient, n) = Empty => v = S_dot \o Sep \o SysDir(n) \o Sep
                /\ IsPrefix(AmbientOrDot(n), v)
                /\ EndsWith(v, Sep)

\* C8 amended: the prefix is the ambient value (or "."), with its backslashes
\* turned into forward slashes for TEXINPUTS on Windows; the toolchain directory
\* and the empty last segment follow.
C8_Composed ==
    (Invoked("texi2dviEnvironmentVars") /\ TexmfLocated) =>
        \A n \in InputNames :
            LET v == getenv(envVars, n)
                head == IF win32 /\ n = "TEXINPUTS"
                        THEN ReplaceAll(AmbientOrDot(n), Backslash, Slash)
                        ELSE AmbientOrDot(n)
            IN  /\ getenv(ambient, n) = Empty => v = S_dot \o Sep \o SysDir(n) \o Sep
                /\ v = head \o Sep \o SysDir(n) \o Sep

C8_Witness ==
    /\ Invoked("texi2dviEnvironmentVars") /\ TexmfLocated
    /\ \A n \in InputNames : getenv(ambient, n) = Empty
    /\ getenv(envVars, "BSTINPUTS") = S_dot \o Sep \o SysDir("BSTINPUTS") \o Sep

\* ---------------------------------------------------------------- C9
\* C9: on Windows the composed TEXINPUTS holds no backslash whatever the ambient
\* value; for BIBINPUTS and BSTINPUTS the ambient value is taken as it is.
C9_ForwardSlashes ==
    (Invoked("texi2dviEnvironmentVars") /\ TexmfLocated) =>
        /\ win32 => Count(getenv(envVars, "TEXINPUTS"), Backslash) = 0
        /\ \A n \in {"BIBINPUTS", "BSTINPUTS"} :
              IsPrefix(AmbientOrDot(n) \o Sep, getenv(envVars, n))

C9_Witness ==
    /\ Invoked("texi2dviEnvironmentVars") /\ TexmfLocated /\ win32
    /\ Count(getenv(ambient, "TEXINPUTS"), Backslash) > 0
    /\ Count(getenv(ambient, "BIBINPUTS"), Backslash) > 0
    /\ Count(getenv(envVars, "BIBINPUTS"), Backslash) > 0

\* ---------------------------------------------------------------- C10
NameSet(opts) == {opts[i][1] : i \in 1..Len(opts)}

\* C10: the plan given to the process supervisor has the ambient environment with
\* every overlay entry applied (the overlay wins, the other ambient variables are
\* kept), the built arguments followed by the target's file name, and the
\* target's directory as working directory.
C10_InvocationPlan ==
    Launched =>
        /\ \A i \in 1..Len(envVars) :
              getenv(plan.environment, envVars[i][1]) = envVars[i][2]
        /\ \A i \in 1..Len(ambient) :
              ambient[i][1] \notin NameSet(envVars) =>
                  getenv(plan.environment, ambient[i][1]) = ambient[i][2]
        /\ NameSet(plan.environment) = NameSet(ambient) \cup NameSet(envVars)
        /\ Len(plan.environment) = Cardinality(NameSet(plan.environment))
        /\ SubSeq(plan.args, 1, Len(plan.args) - 1) = shellArgs
        /\ Count(Last(plan.args), Slash) = 0
        /\ plan.workingDir \o <<Slash>> \o Last(plan.args) = texFilePath

C10_Witness ==
    /\ Launched /\ TexmfLocated
    /\ getenv(ambient, "TEXINPUTS") # Empty
    /\ getenv(ambient, "PDFLATEX") # Empty
    /\ getenv(plan.environment, "TEXINPUTS") # getenv(ambient, "TEXINPUTS")
    /\ Len(plan.args) = 3

====
